---- MODULE Spec2Model ----
(***************************************************************************)
(* Cache-aside key-value server: a bounded in-memory cache (Cache) in      *)
(* front of a durable table kv_store, served by one goroutine per HTTP     *)
(* request (Server.kvHandler -> handleGet / handlePut / handleDelete).     *)
(*                                                                         *)
(* Each request goroutine is a worker with a program counter.  A step is   *)
(* one shared-memory access of the code: a read or write of Cache.items,   *)
(* an atomic add on a counter, an unlock of Cache.mu, or one SQL           *)
(* statement.  Locking Cache.mu is folded into the first access it         *)
(* protects: between the two no other goroutine can touch Cache.items or   *)
(* the lock, so the fold loses no interleaving.                            *)
(*                                                                         *)
(* A handler ends with a step that writes its response and returns; the    *)
(* response is an output, Reply(w), a function of the handler's locals at  *)
(* that step.  When the handler has returned its locals are gone and the   *)
(* goroutine is free for the next request.                                 *)
(*                                                                         *)
(* The database is an opaque collaborator: one statement is one atomic     *)
(* step that either takes effect and returns nil, or has no effect and     *)
(* returns an error.  The table outlives the server (CREATE TABLE IF NOT    *)
(* EXISTS): when the server starts it is empty or holds the rows an        *)
(* earlier run has written; the cache always starts empty.                 *)
(*                                                                         *)
(* Specifications: Spec is the server with any requests; SpecReporter adds *)
(* the statistics reporter goroutine; SpecFair adds a fair scheduler;      *)
(* SpecSeq serves requests one at a time; SpecDisjoint serves one Read or  *)
(* Write per key without store failures; SpecZero builds NewCache(0).      *)
(***************************************************************************)
EXTENDS Integers, Sequences, FiniteSets, TLC

\* ---- bounds of the model ----
MaxReq == 3
MaxCap == 2
MaxRepReq == 2
MaxFairReq == 2

Workers == {"w1", "w2"}
Keys    == {<<"a">>, <<"b">>}
Values  == {"x", "y"}

\* ---- request inputs ----
Prefix  == <<"/", "k", "v", "/">>
Paths   == {Prefix \o k : k \in Keys \cup {<<>>}}
Methods == {"GET", "PUT", "DELETE", "POST"}

NoKey    == <<>>
NoVal    == "-"
NoWorker == "none"
NoExp    == <<"none">>

VARIABLES
    items,        \* Cache.items : map[string]string
    maxSize,      \* Cache.maxSize
    hits,         \* Cache.hits
    misses,       \* Cache.misses
    mu,           \* Cache.mu : [writer, readers]
    table,        \* rows of kv_store: key -> value
    g,            \* per worker: pc and the locals of its handler
    rep,          \* the statistics reporter: pc and its locals h, m
    \* ---- history (never read by the program) ----
    nreq,         \* requests received
    nget,         \* Cache.Get calls made
    stored,       \* key -> values the table has held for it
    started,      \* keys for which a PUT handler has ever started
    asked,        \* keys for which a handler has started since Init
    quiet,        \* key -> last uncontended successful Write/Remove
    quietA,       \* as quiet, reset by the cache fill of a stale Read
    staleKeys,    \* keys whose entry was last written by a stale Cache.Set
    h             \* per worker: history of its request

vars == <<items, maxSize, hits, misses, mu, table, g, rep,
          nreq, nget, stored, started, asked, quiet, quietA, staleKeys, h>>

\* ---- maps (Go map / SQL table as a function on the present keys) ----
Has(m, k) == k \in DOMAIN m

MapLen(m) == Cardinality(DOMAIN m)

MapPut(m, k, v) == [x \in DOMAIN m \cup {k} |-> IF x = k THEN v ELSE m[x]]

MapDelete(m, k) == [x \in DOMAIN m \ {k} |-> m[x]]

EmptyMap == [x \in {} |-> NoVal]

\* strings.TrimPrefix
TrimPrefix(s, p) ==
    IF Len(s) >= Len(p) /\ SubSeq(s, 1, Len(p)) = p
    THEN SubSeq(s, Len(p) + 1, Len(s))
    ELSE s

\* ---- a goroutine with no request: pc and locals ----
Idle == [pc |-> "idle", method |-> "NONE", key |-> NoKey, value |-> NoVal,
         val |-> NoVal, ok |-> FALSE, valueFromDB |-> NoVal, err |-> "unset",
         arg |-> NoVal]

\* history of a request: counted   = counter its Cache.Get incremented,
\*                       mutated   = it wrote Cache.items,
\*                       contended = a conflicting request overlapped it,
\*                       expect    = (Read) quiet[key] when it started,
\*                       expectA   = (Read) quietA[key] when it started,
\*                       staleRd   = (Read) row changed after its query,
\*                       staleWr   = (Write) row changed after its put,
\*                       before    = Cache.items when its Cache.Set locked
NoHist == [counted |-> "none", mutated |-> FALSE, contended |-> FALSE,
           expect |-> NoExp, expectA |-> NoExp, staleRd |-> FALSE,
           staleWr |-> FALSE,
           before |-> EmptyMap]

\* ---- the reporter between two samples: time.Sleep, no locals ----
Sleeping == [pc |-> "Sleep", h |-> 0, m |-> 0]

\* ---- requests in flight (an idle goroutine has method "NONE") ----
Writers(k)  == {w \in Workers : g[w].method = "PUT" /\ g[w].key = k}

Removers(k) == {w \in Workers : g[w].method = "DELETE" /\ g[w].key = k}

Readers(k)  == {w \in Workers : g[w].method = "GET" /\ g[w].key = k}

\* Reads of k that hold a value fetched from the table and not yet cached
Fillers(k)  == {w \in Readers(k) : g[w].pc \in {"SetLock", "SetInsert"}}

\* Writes of k whose put has returned and whose Cache.Set is not yet done
PendingSets(k) == {w \in Writers(k) : g[w].pc \in {"SetLock", "SetInsert"}}

\* ---- the table main finds: new, or with rows of an earlier run ----
InitTables == {EmptyMap, [k \in Keys |-> "x"]}

\* ---- NewCache(maxSize); main opens the table and builds the cache ----
InitCache(caps) ==
    /\ items = EmptyMap
    /\ maxSize \in caps
    /\ hits = 0
    /\ misses = 0
    /\ mu = [writer |-> NoWorker, readers |-> {}]
    /\ table \in InitTables
    /\ g = [w \in Workers |-> Idle]
    /\ rep = Sleeping
    /\ nreq = 0
    /\ nget = 0
    /\ stored = [k \in Keys |-> IF Has(table, k) THEN {table[k]} ELSE {}]
    /\ started = DOMAIN table
    /\ asked = {}
    /\ quiet = [k \in Keys |-> NoExp]
    /\ quietA = [k \in Keys |-> NoExp]
    /\ staleKeys = {}
    /\ h = [w \in Workers |-> NoHist]

Init == InitCache(1..MaxCap)

cacheVars == <<items, maxSize, hits, misses>>
storeVars == <<table, stored>>
reqVars   == <<nreq, nget, started, asked>>

\* ---- Server.kvHandler: validation and dispatch ----
DispatchPutReads(k, m) ==
    IF k = NoKey THEN "Reject"
    ELSE CASE m \in {"GET", "PUT"} -> "GetRLock"
           [] m = "DELETE" -> "DelExec"
           [] OTHER        -> "Reject"

Dispatch(k, m) ==
    IF k = NoKey THEN "Reject"
    ELSE CASE m = "GET"    -> "GetRLock"
           [] m = "PUT"    -> "PutExec"
           [] m = "DELETE" -> "DelExec"
           [] OTHER        -> "Reject"

RejectStatusAlways405(k) == 405

RejectStatus(k) == IF k = NoKey THEN 400 ELSE 405

RejectBody(k) == IF k = NoKey THEN "Key is missing" ELSE "Method not allowed"

\* history kept when a request on key k with method m starts in worker w
StartQuiet(q, k, m) ==
    CASE m = "PUT"    -> [q EXCEPT ![k] = NoExp]
      [] m = "DELETE" -> [q EXCEPT ![k] = IF q[k] = <<"R">> THEN q[k] ELSE NoExp]
      [] OTHER        -> q

StartExpect(e, q, x, w, k, m) ==
    IF x = w THEN (IF m = "GET" THEN q[k] ELSE NoExp)
    ELSE IF x \in Readers(k) /\ m = "PUT" THEN NoExp
    ELSE IF x \in Readers(k) /\ m = "DELETE" /\ e # <<"R">> THEN NoExp
    ELSE e

StartContended(x, w, k, m) ==
    IF x = w THEN
        CASE m = "PUT"    -> (Writers(k) \cup Removers(k)) # {}
          [] m = "DELETE" -> Writers(k) # {}
          [] OTHER        -> FALSE
    ELSE IF m = "PUT" /\ x \in Writers(k) \cup Removers(k) THEN TRUE
    ELSE IF m = "DELETE" /\ x \in Writers(k) THEN TRUE
    ELSE h[x].contended

\* v is the value handlePut reads from the request body (lines 155-157)
kvHandler(w, path, m, v) ==
    /\ g[w].pc = "idle"
    /\ nreq < MaxReq
    /\ nreq' = nreq + 1
    /\ LET k  == TrimPrefix(path, Prefix)
           to == Dispatch(k, m)
       IN IF to = "Reject"
          THEN /\ g' = [g EXCEPT ![w] = [Idle EXCEPT !.pc = to, !.key = k]]
               /\ UNCHANGED <<nget, started, asked, quiet, quietA, h>>
          ELSE /\ g' = [g EXCEPT ![w] = [Idle EXCEPT !.pc = to, !.method = m, !.key = k,
                                             !.value = IF m = "PUT" THEN v ELSE NoVal]]
               /\ nget' = IF m = "GET" THEN nget + 1 ELSE nget
               /\ started' = IF m = "PUT" THEN started \cup {k} ELSE started
               /\ asked' = asked \cup {k}
               /\ quiet' = StartQuiet(quiet, k, m)
               /\ quietA' = StartQuiet(quietA, k, m)
               /\ h' = [x \in Workers |->
                          [(IF x = w THEN NoHist ELSE h[x]) EXCEPT
                             !.expect = StartExpect(h[x].expect, quiet, x, w, k, m),
                             !.expectA = StartExpect(h[x].expectA, quietA, x, w, k, m),
                             !.contended = StartContended(x, w, k, m)]]
    /\ UNCHANGED <<rep, staleKeys, cacheVars, mu, storeVars>>

\* http.Error(w, ..., 400 / 405); the handler returns
Reject(w) ==
    /\ g[w].pc = "Reject"
    /\ g' = [g EXCEPT ![w] = Idle]
    /\ UNCHANGED <<rep, staleKeys, cacheVars, mu, storeVars, reqVars, quiet, quietA, h>>

\* ---- Cache.mu: the deferred unlocks ----
RUnlock(m, w) == [m EXCEPT !.readers = @ \ {w}]

UnlockForgotten(m) == m

Unlock(m) == [m EXCEPT !.writer = NoWorker]

\* ---- Cache.Get ----
CanRLockAlways(m) == TRUE

CanRLock(m) == m.writer = NoWorker

\* val, ok := c.items[key]
Lookup(m, k) == IF Has(m, k) THEN m[k] ELSE ""

\* c.mu.RLock(); val, ok := c.items[key]
GetRLock(w) ==
    /\ g[w].pc = "GetRLock"
    /\ CanRLock(mu)
    /\ mu' = [mu EXCEPT !.readers = @ \cup {w}]
    /\ g' = [g EXCEPT ![w].pc = "GetCount",
                      ![w].val = Lookup(items, g[w].key),
                      ![w].ok = Has(items, g[w].key)]
    /\ UNCHANGED <<rep, staleKeys, cacheVars, storeVars, reqVars, quiet, quietA, h>>

\* atomic.AddInt64(&c.hits, 1) / atomic.AddInt64(&c.misses, 1)
AddHits(found, n) == IF found THEN n + 1 ELSE n

AddMissesAlways(found, n) == n + 1

AddMisses(found, n) == IF found THEN n ELSE n + 1

GetCount(w) ==
    /\ g[w].pc = "GetCount"
    /\ hits' = AddHits(g[w].ok, hits)
    /\ misses' = AddMisses(g[w].ok, misses)
    /\ h' = [h EXCEPT ![w].counted =
                IF hits' = hits + 1 /\ misses' = misses THEN "hit"
                ELSE IF hits' = hits /\ misses' = misses + 1 THEN "miss"
                ELSE "bad"]
    /\ g' = [g EXCEPT ![w].pc = "GetRUnlock"]
    /\ UNCHANGED <<rep, staleKeys, items, maxSize, mu, storeVars, reqVars, quiet, quietA>>

\* handleGet after Cache.Get returns: a hit is answered from the cache
AfterGetAlwaysQuery(found) == "Query"

AfterGet(found) == IF found THEN "idle" ELSE "Query"

\* c.mu.RUnlock(); on a hit handleGet writes val and returns
GetRUnlock(w) ==
    /\ g[w].pc = "GetRUnlock"
    /\ mu' = RUnlock(mu, w)
    /\ IF AfterGet(g[w].ok) = "idle"
       THEN /\ g' = [g EXCEPT ![w] = Idle]
            /\ h' = [h EXCEPT ![w] = NoHist]
       ELSE /\ g' = [g EXCEPT ![w].pc = AfterGet(g[w].ok)]
            /\ UNCHANGED h
    /\ UNCHANGED <<rep, staleKeys, cacheVars, storeVars, reqVars, quiet, quietA>>

\* ---- handleGet: SELECT value FROM kv_store WHERE key = $1 ----
SelectErr(t, k, fail) ==
    IF fail THEN "fail" ELSE IF Has(t, k) THEN "nil" ELSE "norows"

AfterQueryNoRowsFill(e) == IF e = "fail" THEN "GetFail" ELSE "SetLock"

AfterQuery(e) == IF e # "nil" THEN "GetFail" ELSE "SetLock"

QueryStatusAlways500(e) == 500

QueryStatus(e) == IF e = "norows" THEN 404 ELSE 500

QueryBody(e) == IF e = "norows" THEN "Key not found" ELSE "Database error"

Query(w, fail) ==
    /\ g[w].pc = "Query"
    /\ LET e == SelectErr(table, g[w].key, fail)
           v == IF e = "nil" THEN table[g[w].key] ELSE ""
       IN g' = [g EXCEPT ![w].err = e, ![w].valueFromDB = v,
                         ![w].pc = AfterQuery(e),
                         ![w].arg = IF AfterQuery(e) = "SetLock" THEN v ELSE NoVal]
    /\ UNCHANGED <<rep, staleKeys, cacheVars, mu, storeVars, reqVars, quiet, quietA, h>>

\* ---- handlePut: INSERT ... ON CONFLICT (key) DO UPDATE SET value = $2 ----
AfterPutExecNoCheck(e) == "SetLock"

AfterPutExec(e) == IF e # "nil" THEN "PutFail" ELSE "SetLock"

\* a statement changed row k: Reads holding an older value are stale
MarkStale(k) ==
    [x \in Workers |-> [h[x] EXCEPT !.staleRd = @ \/ x \in Fillers(k),
                                    !.staleWr = @ \/ x \in PendingSets(k)]]

PutExec(w, fail) ==
    /\ g[w].pc = "PutExec"
    /\ LET e == IF fail THEN "fail" ELSE "nil"
       IN /\ IF fail
             THEN UNCHANGED <<table, stored, h>>
             ELSE /\ table' = MapPut(table, g[w].key, g[w].value)
                  /\ stored' = [stored EXCEPT ![g[w].key] = @ \cup {g[w].value}]
                  /\ h' = MarkStale(g[w].key)
          /\ g' = [g EXCEPT ![w].err = e, ![w].pc = AfterPutExec(e),
                            ![w].arg = IF AfterPutExec(e) = "SetLock"
                                       THEN g[w].value ELSE NoVal]
    /\ UNCHANGED <<rep, staleKeys, cacheVars, mu, reqVars, quiet, quietA>>

\* ---- handleDelete: DELETE FROM kv_store WHERE key = $1 ----
AfterDelExecNoCheck(e) == "DelLock"

AfterDelExec(e) == IF e # "nil" THEN "DelFail" ELSE "DelLock"

DelExec(w, fail) ==
    /\ g[w].pc = "DelExec"
    /\ LET e == IF fail THEN "fail" ELSE "nil"
       IN /\ table' = IF fail THEN table ELSE MapDelete(table, g[w].key)
          /\ h' = IF fail THEN h ELSE MarkStale(g[w].key)
          /\ g' = [g EXCEPT ![w].err = e, ![w].pc = AfterDelExec(e)]
    /\ UNCHANGED <<rep, staleKeys, cacheVars, mu, stored, reqVars, quiet, quietA>>

\* http.Error(w, ..., 404 / 500) after a failed SQL statement; return
FailPcs == {"GetFail", "PutFail", "DelFail"}

ReturnError(w) ==
    /\ g[w].pc \in FailPcs
    /\ g' = [g EXCEPT ![w] = Idle]
    /\ h' = [h EXCEPT ![w] = NoHist]
    /\ UNCHANGED <<rep, staleKeys, cacheVars, mu, storeVars, reqVars, quiet, quietA>>

\* ---- Cache.Set ----
CanLock(m) == m.writer = NoWorker /\ m.readers = {}

\* if len(c.items) >= c.maxSize { for k := range c.items { delete; break } }
\* victim is the key the range loop yields first (any resident key)
EvictAlways(m, cap, victim) ==
    IF Has(m, victim) THEN MapDelete(m, victim) ELSE m

EvictOffByOne(m, cap, victim) ==
    IF MapLen(m) > cap /\ Has(m, victim) THEN MapDelete(m, victim) ELSE m

Evict(m, cap, victim) ==
    IF MapLen(m) >= cap /\ Has(m, victim) THEN MapDelete(m, victim) ELSE m

VictimsNone(m) == {NoKey}

Victims(m) == IF DOMAIN m = {} THEN {NoKey} ELSE DOMAIN m

\* c.mu.Lock(); the eviction
SetLock(w, victim) ==
    /\ g[w].pc = "SetLock"
    /\ CanLock(mu)
    /\ mu' = [mu EXCEPT !.writer = w]
    /\ victim \in Victims(items)
    /\ items' = Evict(items, maxSize, victim)
    /\ staleKeys' = staleKeys \cap DOMAIN items'
    /\ h' = [h EXCEPT ![w].before = items, ![w].mutated = TRUE]
    /\ g' = [g EXCEPT ![w].pc = "SetInsert"]
    /\ UNCHANGED <<rep, maxSize, hits, misses, storeVars, reqVars, quiet, quietA>>

\* c.items[key] = value
InsertIfAbsent(m, k, v) == IF Has(m, k) THEN m ELSE MapPut(m, k, v)

Insert(m, k, v) == MapPut(m, k, v)

SetInsert(w) ==
    /\ g[w].pc = "SetInsert"
    /\ items' = Insert(items, g[w].key, g[w].arg)
    /\ staleKeys' = IF h[w].staleRd \/ h[w].staleWr
                    THEN staleKeys \cup {g[w].key}
                    ELSE staleKeys \ {g[w].key}
    /\ g' = [g EXCEPT ![w].pc = "SetUnlock"]
    /\ IF g[w].method = "GET" /\ h[w].staleRd
       THEN /\ quietA' = [quietA EXCEPT ![g[w].key] = NoExp]
            /\ h' = [x \in Workers |->
                       IF x = w THEN [h[x] EXCEPT !.mutated = TRUE, !.expectA = NoExp]
                       ELSE IF x \in Readers(g[w].key) THEN [h[x] EXCEPT !.expectA = NoExp]
                       ELSE h[x]]
       ELSE /\ h' = [h EXCEPT ![w].mutated = TRUE]
            /\ UNCHANGED quietA
    /\ UNCHANGED <<rep, maxSize, hits, misses, mu, storeVars, reqVars, quiet>>

\* Cache.Set returns; handleGet writes valueFromDB, handlePut writes 200
SetBody(m, fromDB) == IF m = "GET" THEN fromDB ELSE ""

\* c.mu.Unlock(); the handler writes its 200 and returns
SetUnlock(w) ==
    /\ g[w].pc = "SetUnlock"
    /\ mu' = Unlock(mu)
    /\ g' = [g EXCEPT ![w] = Idle]
    /\ h' = [h EXCEPT ![w] = NoHist]
    /\ IF g[w].method = "PUT" /\ ~h[w].contended
       THEN /\ quiet' = [quiet EXCEPT ![g[w].key] = <<"W", g[w].value>>]
            /\ quietA' = [quietA EXCEPT ![g[w].key] = <<"W", g[w].value>>]
       ELSE UNCHANGED <<quiet, quietA>>
    /\ UNCHANGED <<rep, staleKeys, cacheVars, storeVars, reqVars>>

\* ---- Cache.Delete ----
\* delete(c.items, key)
RemoveNothing(m, k) == m

Remove(m, k) == MapDelete(m, k)

\* c.mu.Lock(); delete(c.items, key)
DelLock(w) ==
    /\ g[w].pc = "DelLock"
    /\ CanLock(mu)
    /\ mu' = [mu EXCEPT !.writer = w]
    /\ items' = Remove(items, g[w].key)
    /\ staleKeys' = staleKeys \ {g[w].key}
    /\ h' = [h EXCEPT ![w].mutated = TRUE]
    /\ g' = [g EXCEPT ![w].pc = "DelUnlock"]
    /\ UNCHANGED <<rep, maxSize, hits, misses, storeVars, reqVars, quiet, quietA>>

\* c.mu.Unlock(); handleDelete writes its 200 and returns
DelUnlock(w) ==
    /\ g[w].pc = "DelUnlock"
    /\ mu' = Unlock(mu)
    /\ g' = [g EXCEPT ![w] = Idle]
    /\ h' = [h EXCEPT ![w] = NoHist]
    /\ IF ~h[w].contended
       THEN /\ quiet' = [quiet EXCEPT ![g[w].key] = <<"R">>]
            /\ quietA' = [quietA EXCEPT ![g[w].key] = <<"R">>]
       ELSE UNCHANGED <<quiet, quietA>>
    /\ UNCHANGED <<rep, staleKeys, cacheVars, storeVars, reqVars>>

\* ---- the statistics reporter goroutine of main ----
\* h := atomic.LoadInt64(&s.cache.hits)
RepLoadHits ==
    /\ rep.pc = "Sleep"
    /\ rep' = [rep EXCEPT !.pc = "LoadMisses", !.h = hits]
    /\ UNCHANGED <<cacheVars, mu, storeVars, reqVars, g, quiet, quietA, staleKeys, h>>

\* m := atomic.LoadInt64(&s.cache.misses)
RepLoadMisses ==
    /\ rep.pc = "LoadMisses"
    /\ rep' = [rep EXCEPT !.pc = "Log", !.m = misses]
    /\ UNCHANGED <<cacheVars, mu, storeVars, reqVars, g, quiet, quietA, staleKeys, h>>

\* the counts of the line the reporter logs: nothing when total is 0
RepLine(hh, mm) == IF hh + mm > 0 THEN <<hh, mm>> ELSE <<>>

Logged == IF rep.pc = "Log" THEN RepLine(rep.h, rep.m) ELSE <<>>

\* total := h + m; if total > 0 { log.Printf(...) }; the loop sleeps again
RepLog ==
    /\ rep.pc = "Log"
    /\ rep' = Sleeping
    /\ UNCHANGED <<cacheVars, mu, storeVars, reqVars, g, quiet, quietA, staleKeys, h>>

\* ---- the response a handler writes at its returning step ----
NoReply == [status |-> 0, body |-> NoVal]

Reply(w) ==
    CASE g[w].pc = "Reject" ->
            [status |-> RejectStatus(g[w].key), body |-> RejectBody(g[w].key)]
      [] g[w].pc = "GetRUnlock" /\ AfterGet(g[w].ok) = "idle" ->
            [status |-> 200, body |-> g[w].val]
      [] g[w].pc = "GetFail" ->
            [status |-> QueryStatus(g[w].err), body |-> QueryBody(g[w].err)]
      [] g[w].pc \in {"PutFail", "DelFail"} ->
            [status |-> 500, body |-> "Database error"]
      [] g[w].pc = "SetUnlock" ->
            [status |-> 200, body |-> SetBody(g[w].method, g[w].valueFromDB)]
      [] g[w].pc = "DelUnlock" ->
            [status |-> 200, body |-> ""]
      [] OTHER -> NoReply

Replying(w) == Reply(w) # NoReply

\* ---- the server: any worker takes its next step ----
\* only a PUT reads its request body
Bodies(m) == IF m = "PUT" THEN Values ELSE {NoVal}

Next ==
    \/ \E w \in Workers, path \in Paths, m \in Methods :
          \E v \in Bodies(m) : kvHandler(w, path, m, v)
    \/ \E w \in Workers : Reject(w)
    \/ \E w \in Workers : GetRLock(w)
    \/ \E w \in Workers : GetCount(w)
    \/ \E w \in Workers : GetRUnlock(w)
    \/ \E w \in Workers, fail \in BOOLEAN : Query(w, fail)
    \/ \E w \in Workers, fail \in BOOLEAN : PutExec(w, fail)
    \/ \E w \in Workers, fail \in BOOLEAN : DelExec(w, fail)
    \/ \E w \in Workers : ReturnError(w)
    \/ \E w \in Workers, victim \in Keys \cup {NoKey} : SetLock(w, victim)
    \/ \E w \in Workers : SetInsert(w)
    \/ \E w \in Workers : SetUnlock(w)
    \/ \E w \in Workers : DelLock(w)
    \/ \E w \in Workers : DelUnlock(w)

Spec == Init /\ [][Next]_vars

\* ---- a set of concurrent Reads and Writes on pairwise distinct keys, ----
\* ---- the cache has room for every key, every SQL statement succeeds ----
InitDisjoint == Init /\ maxSize >= Cardinality(Keys)

NextDisjoint ==
    \/ \E w \in Workers, k \in Keys \ asked, m \in {"GET", "PUT"} :
          \E v \in Bodies(m) : kvHandler(w, Prefix \o k, m, v)
    \/ \E w \in Workers : GetRLock(w)
    \/ \E w \in Workers : GetCount(w)
    \/ \E w \in Workers : GetRUnlock(w)
    \/ \E w \in Workers : Query(w, FALSE)
    \/ \E w \in Workers : PutExec(w, FALSE)
    \/ \E w \in Workers : ReturnError(w)
    \/ \E w \in Workers, victim \in Keys \cup {NoKey} : SetLock(w, victim)
    \/ \E w \in Workers : SetInsert(w)
    \/ \E w \in Workers : SetUnlock(w)

SpecDisjoint == InitDisjoint /\ [][NextDisjoint]_vars

\* ---- the server with its statistics reporter, MaxRepReq requests ----
NextReporter ==
    \/ Next /\ nreq' <= MaxRepReq
    \/ RepLoadHits
    \/ RepLoadMisses
    \/ RepLog

SpecReporter == Init /\ [][NextReporter]_vars

\* the next step of the request goroutine w; a SQL statement returns
Step(w) ==
    \/ Reject(w)
    \/ GetRLock(w)
    \/ GetCount(w)
    \/ GetRUnlock(w)
    \/ \E fail \in BOOLEAN : Query(w, fail)
    \/ \E fail \in BOOLEAN : PutExec(w, fail)
    \/ \E fail \in BOOLEAN : DelExec(w, fail)
    \/ ReturnError(w)
    \/ \E victim \in Keys \cup {NoKey} : SetLock(w, victim)
    \/ SetInsert(w)
    \/ SetUnlock(w)
    \/ DelLock(w)
    \/ DelUnlock(w)

\* ---- the server built on NewCache(0) ----
InitZero == InitCache({0})

SpecZero == InitZero /\ [][Next]_vars

\* ---- requests one at a time: a request arrives when none is in flight ----
NextSeq ==
    \/ /\ \A x \in Workers : g[x].pc = "idle"
       /\ \E w \in Workers, path \in Paths, m \in Methods :
             \E v \in Bodies(m) : kvHandler(w, path, m, v)
    \/ \E w \in Workers : Step(w)

SpecSeq == Init /\ [][NextSeq]_vars

\* ---- the server under a fair scheduler, MaxFairReq requests ----
NextFair == Next /\ nreq' <= MaxFairReq

\* the Go scheduler runs every runnable goroutine; a goroutine blocked on
\* Cache.mu runs again once the lock is free (sync.RWMutex does not starve)
Fairness == \A w \in Workers : WF_vars(Step(w))

SpecFair == Init /\ [][NextFair]_vars /\ Fairness

\* ---- type correctness ----
TypeOK ==
    /\ DOMAIN items \subseteq Keys
    /\ \A k \in DOMAIN items : items[k] \in Values
    /\ DOMAIN table \subseteq Keys
    /\ hits \in 0..MaxReq /\ misses \in 0..MaxReq
    /\ mu.writer \in Workers \cup {NoWorker}
    /\ mu.readers \subseteq Workers
    /\ \A w \in Workers : Reply(w).status \in {0, 200, 400, 404, 405, 500}

\* ======================= properties =======================
SetPcs == {"SetLock", "SetInsert", "SetUnlock"}
DelPcs == {"DelLock", "DelUnlock"}

\* C1: the number of resident entries never exceeds maxSize (maxSize >= 1),
\* in every state reachable by any interleaving of the handlers.
C1_Capacity == MapLen(items) <= maxSize

\* a Set has evicted from a full cache and the cache is full again
C1_Witness ==
    \E w \in Workers :
        /\ g[w].pc = "SetUnlock"
        /\ MapLen(h[w].before) = maxSize
        /\ ~Has(h[w].before, g[w].key)
        /\ MapLen(items) = maxSize

\* C2 as stated: a Read of k that starts after an uncontended Write(k, v)
\* succeeded, with no Write or Remove of k started since, answers 200 with
\* v, whatever other requests (Reads of k in flight included) do.  (Read
\* in the claim's favour: a Read whose own query fails may answer 500.)
C2_ReadYourWrite_Stated ==
    \A w \in Workers :
        (Replying(w) /\ g[w].method = "GET" /\ h[w].expect[1] = "W") =>
            \/ Reply(w) = [status |-> 200, body |-> h[w].expect[2]]
            \/ Reply(w).status = 500 /\ g[w].err = "fail"

\* C2: as above, provided also that no Read of k which queried the table
\* before the Write's put fills the cache after the Write's Cache.Set; the
\* Read answers 200 with v, or 500 when it misses and its query fails.
C2_ReadYourWrite ==
    \A w \in Workers :
        (Replying(w) /\ g[w].method = "GET" /\ h[w].expectA[1] = "W") =>
            \/ Reply(w) = [status |-> 200, body |-> h[w].expectA[2]]
            \/ Reply(w).status = 500 /\ ~g[w].ok /\ g[w].err = "fail"

\* a Read serves the written value from the table after an eviction
C2_Witness ==
    \E w \in Workers :
        /\ g[w].pc = "SetUnlock" /\ g[w].method = "GET"
        /\ h[w].expectA[1] = "W"
        /\ Reply(w) = [status |-> 200, body |-> h[w].expectA[2]]

\* C3 as stated: a Read of k that starts after a Remove(k) succeeded, with
\* no Write of k overlapping or following the Remove, answers 404,
\* whatever other requests (Reads of k in flight included) do.  (Read in
\* the claim's favour: a Read whose own query fails may answer 500.)
C3_ReadAfterRemove_Stated ==
    \A w \in Workers :
        (Replying(w) /\ g[w].method = "GET" /\ h[w].expect = <<"R">>) =>
            \/ Reply(w).status = 404
            \/ Reply(w).status = 500 /\ g[w].err = "fail"

\* C3: as above, provided also that no Read of k which queried the table
\* before the Remove's delete fills the cache after the Remove's
\* Cache.Delete; the Read answers 404, or 500 when its query fails.
C3_ReadAfterRemove ==
    \A w \in Workers :
        (Replying(w) /\ g[w].method = "GET" /\ h[w].expectA = <<"R">>) =>
            \/ Reply(w).status = 404 /\ g[w].err = "norows"
            \/ Reply(w).status = 500 /\ ~g[w].ok /\ g[w].err = "fail"

\* a Read answers 404 after a Remove of a key that had been stored
C3_Witness ==
    \E w \in Workers :
        /\ g[w].pc = "GetFail" /\ h[w].expectA = <<"R">>
        /\ Reply(w).status = 404
        /\ stored[g[w].key] # {}

\* C4: a key for which no Write has ever started is never resident, and a
\* Read of it whose store call succeeds is answered 404.
C4_NeverWritten ==
    \A k \in Keys \ started :
        /\ ~Has(items, k)
        /\ \A w \in Readers(k) :
              (Replying(w) /\ g[w].err # "fail") => Reply(w).status = 404

C4_Witness ==
    \E w \in Workers :
        /\ g[w].method = "GET" /\ g[w].key \in Keys \ started
        /\ Reply(w).status = 404
        /\ started # {}
        /\ items # EmptyMap

\* C5: every resident entry holds a value the table has held for its key
\* (stored only grows and a cache step never changes it, so the value was in
\* the table at or before the Cache.Set that wrote the entry).
C5_NeverLeads == \A k \in DOMAIN items : items[k] \in stored[k]

\* a resident entry that the table no longer agrees with
C5_Witness ==
    \E k \in DOMAIN items : ~Has(table, k) \/ table[k] # items[k]

\* C6: a request is in, or past, its Cache.Set / Cache.Delete only after its
\* own SQL statement returned nil; a Write sets the value it put, a Read
\* the value its query returned.
C6_StoreFirst ==
    \A w \in Workers :
        (g[w].pc \in SetPcs \cup DelPcs \/ h[w].mutated) =>
            /\ g[w].err = "nil"
            /\ g[w].method = "PUT" =>
                  g[w].arg = g[w].value /\ g[w].value \in stored[g[w].key]
            /\ g[w].method = "GET" =>
                  g[w].arg = g[w].valueFromDB /\ g[w].valueFromDB \in stored[g[w].key]
            /\ g[w].method = "DELETE" => g[w].pc \in DelPcs

C6_Witness ==
    \E w, x \in Workers :
        /\ g[w].pc = "SetInsert" /\ g[w].method = "GET"
        /\ g[x].pc = "DelLock"

\* C7: a Write or Remove whose SQL statement fails answers 500 and never
\* writes Cache.items.
C7_FailedWrite ==
    \A w \in Workers :
        (g[w].method \in {"PUT", "DELETE"} /\ g[w].err = "fail") =>
            /\ ~h[w].mutated
            /\ g[w].pc \in FailPcs
            /\ Reply(w).status = 500

\* a failed Write of a key that stays resident with another value
C7_Witness ==
    \E w \in Workers :
        /\ g[w].pc = "PutFail" /\ Reply(w).status = 500
        /\ Has(items, g[w].key) /\ items[g[w].key] # g[w].value

\* C8: a Read that missed and whose query found no row, or failed, answers
\* 404, respectively 500, never writes Cache.items, and its Get
\* incremented misses only.
C8_FailedRead ==
    \A w \in Workers :
        (g[w].method = "GET" /\ g[w].err \in {"norows", "fail"}) =>
            /\ g[w].pc \in FailPcs
            /\ Reply(w).status = (IF g[w].err = "norows" THEN 404 ELSE 500)
            /\ ~h[w].mutated
            /\ h[w].counted = "miss"
            /\ ~g[w].ok

C8_Witness ==
    \E w \in Workers :
        /\ g[w].pc = "GetFail" /\ g[w].err = "fail" /\ Reply(w).status = 500
        /\ Has(table, g[w].key) /\ ~Has(items, g[w].key) /\ items # EmptyMap

\* C9: every Cache.Get adds one to exactly one counter, hits iff the key
\* was resident at its lookup, so hits + misses is the number of Get calls
\* that are past their atomic add (all of them once every Get returned).
C9_Counters ==
    /\ hits + misses =
          nget - Cardinality({w \in Workers : g[w].pc \in {"GetRLock", "GetCount"}})
    /\ \A w \in Workers :
          /\ h[w].counted # "bad"
          /\ g[w].pc = "GetRUnlock" =>
                h[w].counted = (IF g[w].ok THEN "hit" ELSE "miss")
          /\ (g[w].method = "GET" /\ g[w].pc \notin {"GetRLock", "GetCount"}) =>
                h[w].counted # "none"

\* two Gets count under the shared lock, one a hit and one a miss
C9_Witness ==
    /\ \A w \in Workers : g[w].pc = "GetRUnlock"
    /\ \E w, x \in Workers : g[w].ok /\ ~g[x].ok
    /\ hits + misses = nget

C11_Rejected ==
    /\ [](/\ \A m \in Methods : Dispatch(NoKey, m) = "Reject"
          /\ \A k \in Keys, m \in Methods :
                Dispatch(k, m) = "Reject" <=> m \notin {"GET", "PUT", "DELETE"}
          /\ \A w \in Workers :
                /\ g[w].pc = "Reject" =>
                      /\ Reply(w).status = (IF g[w].key = NoKey THEN 400 ELSE 405)
                      /\ ~h[w].mutated /\ h[w].counted = "none"
                /\ g[w].pc \notin {"idle", "Reject"} =>
                      g[w].key # NoKey /\ g[w].method \in {"GET", "PUT", "DELETE"})
    /\ [][\A w \in Workers :
            (g'[w] # g[w] /\ "Reject" \in {g[w].pc, g'[w].pc}) =>
                UNCHANGED <<items, hits, misses, table, mu>>]_vars

\* a 400 and a 405 are being answered while the cache and the table hold
\* entries
C11_Witness ==
    \E w, x \in Workers :
        /\ g[w].pc = "Reject" /\ Reply(w).status = 400
        /\ g[x].pc = "Reject" /\ Reply(x).status = 405
        /\ items # EmptyMap /\ table # EmptyMap

\* C12: concurrent Reads and Writes on pairwise distinct keys, the cache
\* having room for every key and every SQL statement succeeding.  A Read of
\* a never-written key is answered 404; once every request has returned,
\* each key written is resident with the value of its Write, which is the
\* table's, each key asked for and never written is absent, and
\* hits + misses is the number of Reads.  (A key with a row of an earlier
\* run counts as written: when only read here, its entry is that row.)
C12_DisjointKeys ==
    /\ \A w \in Workers :
          (Replying(w) /\ g[w].method = "GET" /\ g[w].key \notin started) =>
              Reply(w).status = 404
    /\ (\A w \in Workers : g[w].pc = "idle") =>
          /\ hits + misses = nget
          /\ \A k \in asked :
                /\ k \notin started => ~Has(items, k)
                /\ k \in started =>
                      /\ Has(items, k) /\ Has(table, k) /\ items[k] = table[k]
                      /\ quiet[k][1] = "W" => items[k] = quiet[k][2]
                /\ (k \in started /\ quiet[k][1] # "W") => (nget > 0 /\ items[k] = "x")

\* both requests have returned: one key written and resident, the other
\* read, never written and absent
C12_Witness ==
    /\ \A w \in Workers : g[w].pc = "idle"
    /\ nget = 1 /\ misses = 1
    /\ \E k \in asked, j \in asked :
          /\ quiet[k][1] = "W" /\ Has(items, k) /\ items[k] = "y"
          /\ j \notin started /\ ~Has(items, j)

\* C13: a Set(k, v) that finds k resident only overwrites k's value: at
\* its return the resident keys are those it found when it locked, and
\* every other key keeps its value, also when the cache was full.
C13_OverwriteOnly ==
    \A w \in Workers :
        (g[w].pc = "SetUnlock" /\ Has(h[w].before, g[w].key)) =>
            /\ DOMAIN items = DOMAIN h[w].before
            /\ \A x \in DOMAIN items \ {g[w].key} : items[x] = h[w].before[x]

\* C14: a Read whose lookup hits answers 200 with the value the cache
\* holds, has made no query (err is still unset) and has not written
\* Cache.items; a Read queries the table only after a miss, and only once:
\* it is about to query only with no query made, and past the query it
\* never is about to query again.
C14_HitNoStore ==
    \A w \in Workers :
        g[w].method = "GET" =>
            /\ (g[w].pc \in {"GetCount", "GetRUnlock"} /\ g[w].ok) =>
                  /\ Has(items, g[w].key) /\ items[g[w].key] = g[w].val
                  /\ g[w].err = "unset" /\ g[w].valueFromDB = NoVal
                  /\ ~h[w].mutated
            /\ (g[w].pc = "GetRUnlock" /\ g[w].ok) =>
                  Reply(w) = [status |-> 200, body |-> g[w].val]
            /\ g[w].err # "unset" => (~g[w].ok /\ h[w].counted = "miss")
            /\ g[w].pc \in {"GetRLock", "GetCount", "GetRUnlock", "Query"} =>
                  g[w].err = "unset"
            /\ g[w].pc \in FailPcs \cup SetPcs =>
                  g[w].err # "unset"

\* a hit is answered from the cache while the table no longer agrees
C14_Witness ==
    \E w \in Workers :
        /\ g[w].pc = "GetRUnlock" /\ g[w].ok
        /\ Reply(w).status = 200
        /\ ~Has(table, g[w].key) \/ table[g[w].key] # g[w].val

\* C15: hits and misses never decrease, and only the counting step of a
\* Cache.Get changes them: no step of a Write or Remove request (which
\* make no Get), no step inside Cache.Set or Cache.Delete and no step of
\* the reporter does; the reporter also leaves the entries, the lock and
\* the table alone.
C15_CountersFrame ==
    /\ [](\A w \in Workers :
             g[w].method \in {"PUT", "DELETE"} => h[w].counted = "none")
    /\ [][/\ hits' >= hits /\ misses' >= misses
          /\ (hits' # hits \/ misses' # misses) =>
                \E w \in Workers : /\ g[w].method = "GET"
                                   /\ g[w].pc = "GetCount"
                                   /\ g'[w].pc = "GetRUnlock"
          /\ \A w \in Workers :
                (g'[w] # g[w] /\ (\/ g[w].method \in {"PUT", "DELETE"}
                                  \/ g[w].pc \in SetPcs \cup DelPcs)) =>
                    UNCHANGED <<hits, misses>>
          /\ rep' # rep => UNCHANGED <<items, hits, misses, mu, table, g>>]_vars

\* the reporter has sampled both counters, a Get has counted a miss since,
\* its fill is inside Cache.Set and a Write or Remove is in flight
C15_Witness ==
    /\ rep.pc = "Log" /\ misses > rep.m
    /\ \E w, x \in Workers :
          /\ g[w].method = "GET" /\ g[w].pc \in {"SetInsert", "SetUnlock"}
          /\ g[x].method \in {"PUT", "DELETE"}

\* requests inside a critical section of Cache.mu
InSet == {w \in Workers : g[w].pc \in {"SetInsert", "SetUnlock"}}
InDelete == {w \in Workers : g[w].pc = "DelUnlock"}
InGet == {w \in Workers : g[w].pc \in {"GetCount", "GetRUnlock"}}

\* C16: at most one request is inside Cache.Set or Cache.Delete, and then
\* none is inside Cache.Get; Cache.mu records exactly who is inside.  So
\* while a Set is between its eviction and its insertion no Get is looking
\* up, and what a Get inside has looked up is what Cache.items holds.
C16_MutualExclusion ==
    /\ Cardinality(InSet \cup InDelete) <= 1
    /\ InSet \cup InDelete # {} => InGet = {}
    /\ mu.readers = InGet
    /\ mu.writer = (IF InSet \cup InDelete = {} THEN NoWorker
                    ELSE CHOOSE w \in InSet \cup InDelete : TRUE)
    /\ \A w \in InGet :
          /\ \A x \in Workers : g[x].pc # "SetInsert"
          /\ g[w].ok = Has(items, g[w].key)
          /\ g[w].val = Lookup(items, g[w].key)

\* a Set is between its eviction and its insertion, having evicted, while
\* a Get and a Delete wait for the lock
C16_Witness ==
    \E w, x \in Workers :
        /\ g[w].pc = "SetInsert" /\ items # h[w].before
        /\ g[x].pc \in {"GetRLock", "DelLock"}

\* two Gets are inside Cache.Get together
C16_SharedGets == Cardinality(InGet) >= 2

\* C17: a request holds Cache.mu neither while it runs a SQL statement nor
\* when it has returned, and under a fair scheduler, with every SQL
\* statement returning, every request that has started returns.
C17_Progress ==
    /\ [](\A w \in Workers :
             g[w].pc \in {"idle", "Reject", "Query", "PutExec", "DelExec"} \cup FailPcs =>
                 (mu.writer # w /\ w \notin mu.readers))
    /\ \A w \in Workers : (g[w].pc # "idle") ~> (g[w].pc = "idle")

\* a Set waits for the lock another request holds, while that request's
\* own SQL statement has already returned
C17_Witness ==
    \E w, x \in Workers :
        /\ g[w].pc = "SetLock" /\ ~CanLock(mu)
        /\ x \in mu.readers \/ mu.writer = x
        /\ w # x

\* C18: when requests run one at a time, after every request each resident
\* entry holds the value the table holds for its key, whatever the
\* requests were: failed statements and evictions included.
C18_SequentialCoherence ==
    (\A w \in Workers : g[w].pc = "idle") =>
        \A k \in DOMAIN items : Has(table, k) /\ table[k] = items[k]

\* after three requests, one a Write: an entry written in this run is
\* resident and a row of the table is not
C18_Witness ==
    /\ \A w \in Workers : g[w].pc = "idle"
    /\ nreq = MaxReq
    /\ \E k \in DOMAIN items : items[k] = "y"
    /\ DOMAIN table \ DOMAIN items # {}

\* C19 as stated: once every request has returned, each resident entry
\* holds the value the table holds for its key (so no entry is resident for
\* a key without a row), whatever the interleaving has been.
C19_TransientStaleness_Stated ==
    (\A w \in Workers : g[w].pc = "idle") =>
        \A k \in DOMAIN items : Has(table, k) /\ table[k] = items[k]

\* C19: as above for every entry that was not last written by a stale
\* Cache.Set: the fill of a Read, or the Set of a Write, applied after a
\* later successful statement of another request had changed the key's row.
C19_TransientStaleness ==
    (\A w \in Workers : g[w].pc = "idle") =>
        \A k \in DOMAIN items \ staleKeys : Has(table, k) /\ table[k] = items[k]

\* two overlapping Writes of k, "x" and "y", have both succeeded and
\* returned (the other key was never asked for and has no row, so the table
\* started empty); k's entry was last written by a Set that was not stale
C19_Witness ==
    /\ \A w \in Workers : g[w].pc = "idle"
    /\ nreq = 2
    /\ \E k \in DOMAIN items \ staleKeys, j \in Keys \ asked :
          /\ ~Has(table, j)
          /\ stored[k] = {"x", "y"}
          /\ quiet[k] = NoExp
          /\ items[k] = "y"

\* C20: a cache created by NewCache(0) never holds an entry: its resident
\* entry count stays 0, at most maxSize, whatever Sets are made.
C20_ZeroCapacity == maxSize = 0 => MapLen(items) = 0

====
